---- MODULE Spec2Model ----
(***************************************************************************)
(* I2S transmitter of Chapter02_AudioExample/digilent_arty.py.             *)
(*                                                                         *)
(* Two clock domains: "i2s" (12.288 MHz, the divider i2s_clk_div) and      *)
(* "sys" (100 MHz, edge detection, serializer, controller).  One action    *)
(* per clock edge of each domain, one for the reset.  A 32-bit Signal is a *)
(* function from bit index 0..31 to {0,1}, so that Migen's slices          *)
(* translate literally.                                                    *)
(***************************************************************************)
EXTENDS Integers, Sequences, FiniteSets, TLC

\* ------------------------------------------------------------------------
\* Bounds of the model (not program constants)
\* ------------------------------------------------------------------------
\* initial phase offsets between the two clocks that are explored: 0..MaxInitPhase
MaxInitPhase == 1
\* the receiver numbers the words it reconstructs up to this count
MaxWords == 8
\* the observer numbers the word-select periods up to this count
MaxWs == 3
\* table lengths tried when the design is constructed: 1..MaxCfgLen
MaxCfgLen == 3

\* ------------------------------------------------------------------------
\* Program constants
\* ------------------------------------------------------------------------
SysClkFreq == 100000000
I2SClkFreq == 12288000
DataWidth == 32
ClkDivBits == 8
SclkBit == 1
LrckBit == 7
TableLength == 48
AddrBits == 6
LastAddr == 47

RECURSIVE Pow2(_)
Pow2(n) == IF n = 0 THEN 1 ELSE 2 * Pow2(n - 1)

RECURSIVE GCD(_, _)
GCD(a, b) == IF b = 0 THEN a ELSE GCD(b, a % b)

\* Clock periods in a common time unit: T_sys : T_i2s = f_i2s : f_sys
SysPeriod == I2SClkFreq \div GCD(SysClkFreq, I2SClkFreq)
I2SPeriod == SysClkFreq \div GCD(SysClkFreq, I2SClkFreq)

Bit == {0, 1}
BitIdx == 0 .. (DataWidth - 1)
Word == [BitIdx -> Bit]
Zero == [i \in BitIdx |-> 0]

\* two's complement bits of a (signed) integer, as np.int32 stores it
ToBits(x) ==
  [i \in BitIdx |-> IF i = DataWidth - 1
                      THEN (IF x < 0 THEN 1 ELSE 0)
                      ELSE (x \div Pow2(i)) % 2]

\* samples_int << 8 on an int32 array: the top 8 bits fall off
ShiftLeft8(w) == [i \in BitIdx |-> IF i < 8 THEN 0 ELSE w[i - 8]]

\* np.int32(2**24 * np.sin(2 * np.pi * freq * k / FS)), k = 0..47
samples_raw ==
  << 0, 2189866, 4342263, 6420362, 8388607, 10213321, 11863283, 13310260,
     14529495, 15500126, 16205546, 16633684, 16777216, 16633684, 16205546,
     15500126, 14529495, 13310260, 11863283, 10213321, 8388608, 6420362,
     4342263, 2189866, 0, -2189866, -4342263, -6420362, -8388607, -10213321,
     -11863283, -13310260, -14529495, -15500126, -16205546, -16633684,
     -16777216, -16633684, -16205546, -15500126, -14529495, -13310260,
     -11863283, -10213321, -8388608, -6420362, -4342263, -2189866 >>

\* the memory contents: mem[a] for a in 0..47
mem == [a \in 0 .. (TableLength - 1) |-> ShiftLeft8(ToBits(samples_raw[a + 1]))]

MemValues == {mem[a] : a \in 0 .. (TableLength - 1)}

VARIABLES
  \* i2s domain
  i2s_clk_div,
  \* sys domain, I2S_Tx
  sclk_delay, sclk_fe, lrck_delay, lrck_re, lrck_fe,
  l_data, r_data, i2s_tx, latch_data,
  \* sys domain, Controller
  addr, dat_r, if_l_data, if_r_data,
  \* time of the next i2s edge minus time of the next sys edge
  phase,
  \* observers
  last, epoch,
  pend_sclk_fe, pend_lrck_re, pend_lrck_fe,
  ws_fe, rx_sr, rx_words,
  l_cnt, l_last, r_cnt, r_last, lat,
  sclk_run, lrck_run, fe_run, tx_hold,
  l_word, r_word, tx_src, l_loads, r_loads,
  \* construction of the design
  cfg, engine,
  \* one Blinky counter: the instance followed, its registers, and the
  \* ticks since the LED last changed
  blink, count, led, blink_gap

regs == << i2s_clk_div, sclk_delay, sclk_fe, lrck_delay, lrck_re, lrck_fe,
           l_data, r_data, i2s_tx, latch_data, addr, dat_r, if_l_data,
           if_r_data >>
obs == << last, epoch, pend_sclk_fe, pend_lrck_re, pend_lrck_fe, ws_fe,
          rx_sr, rx_words, l_cnt, l_last, r_cnt, r_last, lat,
          sclk_run, lrck_run, fe_run, tx_hold,
          l_word, r_word, tx_src, l_loads, r_loads >>
build == << cfg, engine >>
blinky == << blink, count, led, blink_gap >>
vars == << regs, phase, obs, build, blinky >>

Min(a, b) == IF a < b THEN a ELSE b
Max(a, b) == IF a > b THEN a ELSE b

\* ------------------------------------------------------------------------
\* Combinational signals
\* ------------------------------------------------------------------------
BitOf(n, k) == (n \div Pow2(k)) % 2

\* i2s_sclk.eq(i2s_clk_div[1]), i2s_lrck.eq(i2s_clk_div[7])
i2s_sclk_inv == 1 - BitOf(i2s_clk_div, SclkBit)
i2s_sclk == BitOf(i2s_clk_div, SclkBit)
i2s_lrck == BitOf(i2s_clk_div, LrckBit)

\* rport.re.eq(latch_data), rport.adr.eq(addr)
rport_re == latch_data
rport_adr == addr

\* ------------------------------------------------------------------------
\* Next-state functions of the registers
\* ------------------------------------------------------------------------
\* i2s_clk_div.eq(i2s_clk_div + 1) on a Signal(max=255)
NextClkDiv_max255(c) == (c + 1) % (Pow2(ClkDivBits) - 1)
NextClkDiv(c) == (c + 1) % Pow2(ClkDivBits)

\* If((sig == 0) & (delay == 1), fe.eq(1)).Else(fe.eq(0))
FallingEdge_stuck(sig, delay, old) == IF sig = 0 /\ delay = 1 THEN 1 ELSE old
FallingEdge_level(sig, delay, old) == IF sig = 0 THEN 1 ELSE 0
FallingEdge_any(sig, delay, old) == IF sig # delay THEN 1 ELSE 0
FallingEdge(sig, delay, old) == IF sig = 0 /\ delay = 1 THEN 1 ELSE 0

\* i2s_tx_if.r_data.eq(rport.dat_r), i2s_tx_if.l_data.eq(rport.dat_r):
\* unconditional, outside the If(latch_data) of the address counter
NextIf_gated(datr, latch, old) == IF latch = 1 THEN datr ELSE old
NextIf(datr, latch, old) == datr

\* If((sig == 1) & (delay == 0), re.eq(1)).Else(re.eq(0))
RisingEdge_level(sig, delay, old) == IF sig = 1 THEN 1 ELSE 0
RisingEdge(sig, delay, old) == IF sig = 1 /\ delay = 0 THEN 1 ELSE 0

\* x[1:32].eq(x[0:31]): bit 0 keeps its value
ShiftReg_right(x) ==
  [i \in BitIdx |-> IF i = DataWidth - 1 THEN x[i] ELSE x[i + 1]]
ShiftReg(x) == [i \in BitIdx |-> IF i = 0 THEN x[0] ELSE x[i - 1]]

\* If((sclk_fe == 1) & (i2s_lrck == 0), ...), If((sclk_fe == 1) & (i2s_lrck == 1), ...)
\* as functions of the level read from i2s_lrck
ShiftLAt(lrck) == sclk_fe = 1 /\ lrck = 0
ShiftRAt(lrck) == sclk_fe = 1 /\ lrck = 1
ShiftL == ShiftLAt(i2s_lrck)
ShiftR == ShiftRAt(i2s_lrck)
LoadR_any == (lrck_re = 1 \/ lrck_fe = 1) /\ sclk_fe = 1
LoadR == lrck_re = 1 /\ sclk_fe = 1
LoadL == lrck_fe = 1 /\ sclk_fe = 1

\* If(lrck_fe == 1, latch_data.eq(1)): there is no Else
NextLatch(fe, old) == IF fe = 1 THEN 1 ELSE old

\* If(latch_data, addr.eq(addr + 1), If(addr == 47, addr.eq(0)))
NextAddr_nowrap(a, latch) ==
  IF latch = 1 THEN (a + 1) % Pow2(AddrBits) ELSE a
NextAddr(a, latch) ==
  IF latch = 1
    THEN (IF a = LastAddr THEN 0 ELSE (a + 1) % Pow2(AddrBits))
    ELSE a

\* synchronous read port with read enable (async_read=False, has_re=True)
NextDatR_noen(re, adr, old) == mem[adr]
NextDatR(re, adr, old) == IF re = 1 THEN mem[adr] ELSE old

\* Next values of the serializer's and the controller's registers on a sys
\* tick that reads the levels sclk and lrck from the i2s domain; a later
\* statement of a sync list overrides an earlier one
SysNext(sclk, lrck) ==
  [ l_data |-> IF LoadL THEN if_l_data
               ELSE IF ShiftLAt(lrck) THEN ShiftReg(l_data) ELSE l_data,
    r_data |-> IF LoadR THEN if_r_data
               ELSE IF ShiftRAt(lrck) THEN ShiftReg(r_data) ELSE r_data,
    i2s_tx |-> IF LoadL \/ LoadR THEN 0
               ELSE IF ShiftRAt(lrck) THEN r_data[DataWidth - 1]
               ELSE IF ShiftLAt(lrck) THEN l_data[DataWidth - 1]
               ELSE i2s_tx,
    latch_data |-> NextLatch(lrck_fe, latch_data),
    addr |-> NextAddr(addr, latch_data) ]

\* ------------------------------------------------------------------------
\* Initial state: all registers at their reset value; the memory output
\* register has no reset and holds any word of the memory
\* ------------------------------------------------------------------------
\* ------------------------------------------------------------------------
\* Blinky: one down-counter and LED per instance.  The instances of the
\* three files differ in the clock and the blink frequency only; a clock
\* is followed at 1/BlinkScale of its rate, which keeps the counter cycle
\* short.  The counters share no signal with the I2S logic and stand still
\* in Spec and SpecCfg; SpecBlinky follows them.
\* ------------------------------------------------------------------------
BlinkScale == 100000
De0ClkFreq == 50000000
Led0Hz == 3
Led1Hz == 5

Led0 == [clk |-> SysClkFreq \div BlinkScale, hz |-> Led0Hz]
Led0De0 == [clk |-> De0ClkFreq \div BlinkScale, hz |-> Led0Hz]
Led1 == [clk |-> I2SClkFreq \div BlinkScale, hz |-> Led1Hz]
BlinkInstances == {Led0, Led0De0, Led1}

\* period = int(f_clk / hz / 2)
period(b) == (b.clk \div b.hz) \div 2

\* bits_for(n): the width Migen gives Signal(max=n + 1)
RECURSIVE bits_for(_)
bits_for(n) == IF n < 2 THEN 1 ELSE 1 + bits_for(n \div 2)
CountWidth(b) == bits_for(period(b) - 1)

\* count = Signal(max=period, reset=period), led = Signal()
BlinkyAtReset(b) ==
  /\ blink = b
  /\ count = period(b) % Pow2(CountWidth(b))
  /\ led = 0
  /\ blink_gap = 0

\* count.eq(count - 1), If(count == 0, led.eq(~led), count.eq(period))
NextCount(c, b) ==
  IF c = 0 THEN period(b) % Pow2(CountWidth(b))
  ELSE (c - 1) % Pow2(CountWidth(b))
NextLed(c, l) == IF c = 0 THEN 1 - l ELSE l

InitPhases == 0 .. MaxInitPhase

\* number of sys ticks that cover half a bit-clock period
HalfBitTicks == (Pow2(SclkBit) * I2SPeriod) \div SysPeriod + 1

RegsAtReset ==
  /\ i2s_clk_div = 0
  /\ sclk_delay = 0 /\ sclk_fe = 0
  /\ lrck_delay = 0 /\ lrck_re = 0 /\ lrck_fe = 0
  /\ l_data = Zero /\ r_data = Zero /\ i2s_tx = 0 /\ latch_data = 0
  /\ addr = 0 /\ if_l_data = Zero /\ if_r_data = Zero

ObsAtReset ==
  /\ pend_sclk_fe = 0 /\ pend_lrck_re = 0 /\ pend_lrck_fe = 0
  /\ ws_fe = 0 /\ rx_sr = Zero /\ rx_words = 0
  /\ l_cnt = -1 /\ l_last = -1 /\ r_cnt = -1 /\ r_last = -1 /\ lat = -1
  /\ sclk_run = 0 /\ lrck_run = 0 /\ fe_run = 0
  /\ tx_hold = HalfBitTicks
  /\ l_word = Zero /\ r_word = Zero /\ tx_src = "none"
  /\ l_loads = 0 /\ r_loads = 0

\* the values Top is built with: PLL output 12.288 MHz, FS = 48000,
\* Signal(32) holding registers, Memory(32, 48) of int32 samples
CodeCfg ==
  [ mclk |-> I2SClkFreq, fs |-> 48000, width |-> DataWidth,
    sample_width |-> DataWidth, table_len |-> TableLength ]

Init ==
  /\ RegsAtReset
  /\ dat_r \in MemValues
  /\ phase \in InitPhases
  /\ ObsAtReset
  /\ last = "init" /\ epoch = "power0"
  /\ cfg = CodeCfg /\ engine = "running"
  /\ BlinkyAtReset(Led0)

\* ------------------------------------------------------------------------
\* One edge of the i2s clock (self.sync.i2s)
\* ------------------------------------------------------------------------
TickI2S ==
  /\ phase <= 0
  /\ phase' = phase + I2SPeriod
  /\ i2s_clk_div' = NextClkDiv(i2s_clk_div)
  /\ UNCHANGED << sclk_delay, sclk_fe, lrck_delay, lrck_re, lrck_fe, l_data,
                  r_data, i2s_tx, latch_data, addr, dat_r, if_l_data,
                  if_r_data >>
  \* observers
  /\ last' = "i2s"
  /\ LET sclkFalls == i2s_sclk = 1 /\ i2s_sclk' = 0
         lrckRises == i2s_lrck = 0 /\ i2s_lrck' = 1
         lrckFalls == i2s_lrck = 1 /\ i2s_lrck' = 0
         \* second falling bit-clock edge of a half-period: the bit sampled
         \* here is the last one of the word of the previous half-period
         wordEnds  == sclkFalls /\ i2s_clk_div' % Pow2(LrckBit) = Pow2(SclkBit + 1)
     IN  /\ pend_sclk_fe' = IF sclkFalls THEN Min(pend_sclk_fe + 1, 2) ELSE pend_sclk_fe
         /\ pend_lrck_re' = IF lrckRises THEN Min(pend_lrck_re + 1, 2) ELSE pend_lrck_re
         /\ pend_lrck_fe' = IF lrckFalls THEN Min(pend_lrck_fe + 1, 2) ELSE pend_lrck_fe
         /\ ws_fe' = IF lrckFalls THEN Min(ws_fe + 1, MaxWs) ELSE ws_fe
         /\ rx_sr' = IF sclkFalls
                       THEN [i \in BitIdx |-> IF i = 0 THEN i2s_tx ELSE rx_sr[i - 1]]
                       ELSE rx_sr
         /\ rx_words' = IF wordEnds THEN Min(rx_words + 1, MaxWords) ELSE rx_words
         \* i2s ticks since the last toggle of each derived clock, and
         \* falling bit-clock edges since the last word-select toggle
         /\ sclk_run' = IF i2s_sclk' # i2s_sclk THEN 0
                         ELSE Min(sclk_run + 1, Pow2(ClkDivBits))
         /\ lrck_run' = IF i2s_lrck' # i2s_lrck THEN 0
                         ELSE Min(lrck_run + 1, Pow2(ClkDivBits))
         /\ fe_run' = IF i2s_lrck' # i2s_lrck THEN 0
                       ELSE IF sclkFalls THEN Min(fe_run + 1, Pow2(ClkDivBits))
                       ELSE fe_run
         \* loads of each holding register since the last falling
         \* word-select transition
         /\ l_loads' = IF lrckFalls THEN 0 ELSE l_loads
         /\ r_loads' = IF lrckFalls THEN 0 ELSE r_loads
  /\ UNCHANGED << epoch, l_cnt, l_last, r_cnt, r_last, lat, tx_hold,
                  l_word, r_word, tx_src >>
  /\ UNCHANGED build
  /\ UNCHANGED blinky

\* ------------------------------------------------------------------------
\* One edge of the sys clock (self.sync of I2S_Tx and of Controller)
\* ------------------------------------------------------------------------
TickSys ==
  /\ phase >= 0
  /\ phase' = phase - SysPeriod
  /\ UNCHANGED i2s_clk_div
  \* edge detection
  /\ sclk_delay' = i2s_sclk
  /\ lrck_delay' = i2s_lrck
  /\ sclk_fe' = FallingEdge(i2s_sclk, sclk_delay, sclk_fe)
  /\ lrck_re' = RisingEdge(i2s_lrck, lrck_delay, lrck_re)
  /\ lrck_fe' = FallingEdge(i2s_lrck, lrck_delay, lrck_fe)
  \* serializer
  /\ l_data' = SysNext(i2s_sclk, i2s_lrck).l_data
  /\ r_data' = SysNext(i2s_sclk, i2s_lrck).r_data
  /\ i2s_tx' = SysNext(i2s_sclk, i2s_lrck).i2s_tx
  /\ latch_data' = SysNext(i2s_sclk, i2s_lrck).latch_data
  \* controller
  /\ addr' = SysNext(i2s_sclk, i2s_lrck).addr
  /\ if_r_data' = NextIf(dat_r, latch_data, if_r_data)
  /\ if_l_data' = NextIf(dat_r, latch_data, if_l_data)
  /\ dat_r' = NextDatR(rport_re, rport_adr, dat_r)
  \* observers
  /\ last' = "sys"
  /\ epoch' = IF epoch = "power0" THEN "power1"
              ELSE IF epoch = "reset0" THEN "reset1" ELSE "run"
  /\ pend_sclk_fe' = IF sclk_fe' = 1 THEN Max(pend_sclk_fe - 1, -1) ELSE pend_sclk_fe
  /\ pend_lrck_re' = IF lrck_re' = 1 THEN Max(pend_lrck_re - 1, -1) ELSE pend_lrck_re
  /\ pend_lrck_fe' = IF lrck_fe' = 1 THEN Max(pend_lrck_fe - 1, -1) ELSE pend_lrck_fe
  /\ l_last' = IF LoadL THEN l_cnt ELSE l_last
  /\ l_cnt' = IF LoadL THEN 0
              ELSE IF ShiftL /\ l_cnt >= 0 THEN Min(l_cnt + 1, DataWidth + 1)
              ELSE l_cnt
  /\ r_last' = IF LoadR THEN r_cnt ELSE r_last
  /\ r_cnt' = IF LoadR THEN 0
              ELSE IF ShiftR /\ r_cnt >= 0 THEN Min(r_cnt + 1, DataWidth + 1)
              ELSE r_cnt
  /\ lat' = IF lrck_fe = 1 THEN 0
            ELSE IF lat < 0 THEN lat ELSE Min(lat + 1, 3)
  \* the word last loaded into each holding register, and what drove
  \* i2s_tx last
  /\ l_word' = IF LoadL THEN if_l_data ELSE l_word
  /\ r_word' = IF LoadR THEN if_r_data ELSE r_word
  /\ tx_src' = IF LoadL \/ LoadR THEN "load"
               ELSE IF ShiftR THEN "R"
               ELSE IF ShiftL THEN "L" ELSE tx_src
  /\ l_loads' = IF LoadL THEN Min(l_loads + 1, 2) ELSE l_loads
  /\ r_loads' = IF LoadR THEN Min(r_loads + 1, 2) ELSE r_loads
  \* sys ticks since the last tick that could change i2s_tx
  /\ tx_hold' = IF sclk_fe = 1 THEN 0 ELSE Min(tx_hold + 1, HalfBitTicks)
  /\ UNCHANGED << ws_fe, rx_sr, rx_words, sclk_run, lrck_run, fe_run >>
  /\ UNCHANGED build
  /\ UNCHANGED blinky

\* ------------------------------------------------------------------------
\* Reset (cpu_reset): sys_rst, and through the PLL the i2s domain; the PLL
\* relocks at some phase
\* ------------------------------------------------------------------------
Reset ==
  /\ i2s_clk_div' = 0
  /\ sclk_delay' = 0 /\ sclk_fe' = 0
  /\ lrck_delay' = 0 /\ lrck_re' = 0 /\ lrck_fe' = 0
  /\ l_data' = Zero /\ r_data' = Zero /\ i2s_tx' = 0 /\ latch_data' = 0
  /\ addr' = 0 /\ if_l_data' = Zero /\ if_r_data' = Zero
  /\ UNCHANGED dat_r
  /\ phase' \in InitPhases
  \* observers
  /\ pend_sclk_fe' = 0 /\ pend_lrck_re' = 0 /\ pend_lrck_fe' = 0
  /\ ws_fe' = 0 /\ rx_sr' = Zero /\ rx_words' = 0
  /\ l_cnt' = -1 /\ l_last' = -1 /\ r_cnt' = -1 /\ r_last' = -1 /\ lat' = -1
  /\ sclk_run' = 0 /\ lrck_run' = 0 /\ fe_run' = 0
  /\ tx_hold' = HalfBitTicks
  /\ l_word' = Zero /\ r_word' = Zero /\ tx_src' = "none"
  /\ l_loads' = 0 /\ r_loads' = 0
  /\ last' = "reset" /\ epoch' = "reset0"
  /\ UNCHANGED build
  /\ UNCHANGED blinky

Next == TickI2S \/ TickSys \/ Reset

Spec == Init /\ [][Next]_vars

\* ------------------------------------------------------------------------
\* Construction of the design for other values of its parameters: Top,
\* I2S_Tx and Controller build the logic without any check of the clock
\* ratio, the table length or the sample width
\* ------------------------------------------------------------------------
Configs ==
  [ mclk : {I2SClkFreq, 12000000, 11289600},
    fs : {48000, 44100},
    width : {16, 24, DataWidth},
    sample_width : {16, 24, DataWidth},
    table_len : 1 .. MaxCfgLen ]

InitCfg ==
  /\ RegsAtReset
  /\ dat_r = mem[0]
  /\ phase = 0
  /\ ObsAtReset
  /\ last = "init" /\ epoch = "power0"
  /\ cfg \in Configs /\ engine = "setup"
  /\ BlinkyAtReset(Led0)

Construct ==
  /\ engine = "setup"
  /\ engine' = "running"
  /\ UNCHANGED << regs, phase, obs, cfg >>
  /\ UNCHANGED blinky

NextCfg == Construct

SpecCfg == InitCfg /\ [][NextCfg]_vars

\* ------------------------------------------------------------------------
\* The Blinky counters on their own clock
\* ------------------------------------------------------------------------
InitBlinky ==
  /\ RegsAtReset
  /\ dat_r = mem[0]
  /\ phase = 0
  /\ ObsAtReset
  /\ last = "init" /\ epoch = "power0"
  /\ cfg = CodeCfg /\ engine = "running"
  /\ \E b \in BlinkInstances : BlinkyAtReset(b)

\* one edge of the clock of the instance
TickBlinky ==
  /\ count' = NextCount(count, blink)
  /\ led' = NextLed(count, led)
  /\ blink_gap' = IF count = 0 THEN 0
                  ELSE Min(blink_gap + 1, period(blink) + 1)
  /\ last' = "blinky"
  /\ UNCHANGED << epoch, pend_sclk_fe, pend_lrck_re, pend_lrck_fe, ws_fe,
                  rx_sr, rx_words, l_cnt, l_last, r_cnt, r_last, lat,
                  sclk_run, lrck_run, fe_run, tx_hold, l_word, r_word,
                  tx_src, l_loads, r_loads >>
  /\ UNCHANGED << blink, regs, phase, build >>

\* reset of the clock domain of the instance
ResetBlinky ==
  /\ count' = period(blink) % Pow2(CountWidth(blink))
  /\ led' = 0
  /\ blink_gap' = 0
  /\ last' = "reset" /\ epoch' = "reset0"
  /\ UNCHANGED << pend_sclk_fe, pend_lrck_re, pend_lrck_fe, ws_fe, rx_sr,
                  rx_words, l_cnt, l_last, r_cnt, r_last, lat, sclk_run,
                  lrck_run, fe_run, tx_hold, l_word, r_word, tx_src,
                  l_loads, r_loads >>
  /\ UNCHANGED << blink, regs, phase, build >>

NextBlinky == TickBlinky \/ ResetBlinky

SpecBlinky == InitBlinky /\ [][NextBlinky]_vars

\* ------------------------------------------------------------------------
\* Claims
\* ------------------------------------------------------------------------

\* C1: round trip.  Sampling i2s_tx at every falling bit-clock edge and
\* closing a 32-bit word one bit clock after each word-select transition
\* (I2S alignment) gives the table in order, one entry per word-select
\* period: after the start-up words, the right and then the left word of
\* period n are both mem[n mod 48].
C1_RoundTrip ==
  (last = "i2s" /\ i2s_clk_div % Pow2(LrckBit) = Pow2(SclkBit + 1)
     /\ rx_words >= 5 /\ rx_words < MaxWords)
    => rx_sr = mem[((rx_words - 5) \div 2) % TableLength]

\* C2: latch_data is a one-tick pulse: a sys tick that starts with
\* latch_data high ends with latch_data low.
C2_LatchPulse ==
  [][(last' = "sys" /\ latch_data = 1) => latch_data' = 0]_vars

\* C3: the address advances exactly once per word-select period: while k
\* word-select periods have elapsed the address is k mod 48, or still
\* (k-1) mod 48 while the advance is under way; so it is 0 again after 48.
C3_Wrap ==
  ws_fe < MaxWs =>
    \/ addr = ws_fe % TableLength
    \/ (ws_fe > 0 /\ addr = (ws_fe - 1) % TableLength)

\* C4: in every reachable state 0 <= addr < tableLength.
C4_AddrRange == addr \in 0 .. (TableLength - 1)

\* C4 witness: the address has reached its last value and a further advance
\* is enabled.
C4_Witness == addr = LastAddr /\ latch_data = 1 /\ epoch = "run"

\* C5: a sys tick with latch_data high takes the address to (addr + 1) mod
\* tableLength and reads the memory at the old address; a sys tick with
\* latch_data low leaves the address and the read port's output unchanged.
C5_AddrStep ==
  [][last' = "sys" =>
       IF latch_data = 1
         THEN addr' = (addr + 1) % TableLength /\ dat_r' = mem[addr]
         ELSE addr' = addr /\ dat_r' = dat_r]_vars

\* C5 witness: a tick with latch_data high has read the last entry and
\* wrapped the address to 0.
C5_Witness ==
  last = "sys" /\ latch_data = 1 /\ addr = 0 /\ dat_r = mem[LastAddr]

\* C6: every transition the divider produces (bit clock falling, word
\* select rising, word select falling) is answered by exactly one tick of
\* its pulse flag: no transition is still unanswered when the next one
\* comes, and no flag is high without an unanswered transition.
C6_EdgePulse ==
  /\ pend_sclk_fe \in {0, 1}
  /\ pend_lrck_re \in {0, 1}
  /\ pend_lrck_fe \in {0, 1}

\* C6 witness: a word-select falling transition (which is also a bit-clock
\* falling transition) has been produced and both flags answer it.
C6_Witness ==
  /\ lrck_fe = 1 /\ sclk_fe = 1 /\ ws_fe >= 1
  /\ pend_sclk_fe = 0 /\ pend_lrck_fe = 0 /\ pend_lrck_re = 0

\* C7: between two loads of a holding register exactly 32 shift steps are
\* applied to it.
C7_ExactlyW ==
  /\ l_last \in {-1, DataWidth}
  /\ r_last \in {-1, DataWidth}

\* C8: a holding register changes only by shift steps between its loads,
\* and it is loaded again only after all 32 bits of the word it holds have
\* been shifted out.
C8_NoOverwrite ==
  [][last' = "sys" =>
       /\ LoadL => (l_cnt = -1 \/ l_cnt >= DataWidth)
       /\ LoadR => (r_cnt = -1 \/ r_cnt >= DataWidth)
       /\ ~LoadL => l_data' \in {l_data, ShiftReg(l_data)}
       /\ ~LoadR => r_data' \in {r_data, ShiftReg(r_data)}]_vars

\* C9: from the second sys tick after a word-select falling pulse (address
\* advance, one tick of read latency) the values at the serializer's load
\* inputs do not change any more until the next pulse.
C9_Latency ==
  [][(last' = "sys" /\ lat >= 2) =>
       (if_l_data' = if_l_data /\ if_r_data' = if_r_data)]_vars

\* C10: a reset puts the divider, the delayed copies, the edge flags,
\* latch_data and the address back to 0, and no edge flag is high after the
\* first sys tick that follows.
C10_Reset ==
  /\ last = "reset" => RegsAtReset
  /\ epoch \in {"power1", "reset1"} =>
       (sclk_fe = 0 /\ lrck_re = 0 /\ lrck_fe = 0)

\* C10 witness: the first sys tick after a reset, the divider having
\* already counted once.
C10_Witness == epoch = "reset1" /\ last = "sys" /\ i2s_clk_div = 1

\* C11: the divider counter stays within 0..255; the bit clock toggles on
\* exactly every 2nd i2s tick and the word select on exactly every 128th;
\* every word-select toggle is a falling bit-clock edge, the 32nd of its
\* half-period (64 bit-clock periods per word-select period).
C11_Divider ==
  /\ [](i2s_clk_div \in 0 .. 255)
  /\ [][last' = "i2s" =>
          /\ (i2s_sclk' # i2s_sclk) <=> (sclk_run + 1 = 2)
          /\ (i2s_lrck' # i2s_lrck) <=> (lrck_run + 1 = 128)
          /\ (i2s_lrck' # i2s_lrck) =>
               (i2s_sclk = 1 /\ i2s_sclk' = 0 /\ fe_run + 1 = 32)]_vars

\* C11 witness: the counter has wrapped from 255 to 0 at the end of a full
\* word-select period.
C11_Witness ==
  last = "i2s" /\ i2s_clk_div = 0 /\ ws_fe >= 1 /\ lrck_run = 0 /\ fe_run = 0

\* C12: the next values of the holding registers, the data line,
\* latch_data and the address on a sys tick do not depend on the level the
\* tick reads from the bit clock or the word select: they are the same for
\* every pair of levels.
C12_NoLiveRead ==
  \A s \in Bit, w \in Bit : SysNext(s, w) = SysNext(i2s_sclk, i2s_lrck)

\* C13: outside reset the data line changes only on a sys tick on which
\* sclk_fe is high, and two such ticks are at least half a bit-clock period
\* apart, so every bit stays on the line for at least half a bit clock.
C13_BitHold ==
  [][last' # "reset" =>
       /\ (i2s_tx' # i2s_tx) => (last' = "sys" /\ sclk_fe = 1)
       /\ (last' = "sys" /\ sclk_fe = 1) =>
            (tx_hold + 1) * SysPeriod >= Pow2(SclkBit) * I2SPeriod]_vars

\* C13 witness: a tick with sclk_fe high has just put a 1 on the data line.
C13_Witness == last = "sys" /\ tx_hold = 0 /\ i2s_tx = 1

C15_MsbFirst ==
  /\ [][(last' = "sys" /\ sclk_fe = 1 /\ ~LoadL /\ ~LoadR) =>
          IF i2s_lrck = 0
            THEN /\ i2s_tx' = l_data[31]
                 /\ \A i \in 1 .. 31 : l_data'[i] = l_data[i - 1]
            ELSE /\ i2s_tx' = r_data[31]
                 /\ \A i \in 1 .. 31 : r_data'[i] = r_data[i - 1]]_vars
  /\ []((tx_src = "L" /\ l_cnt \in 1 .. 32) => i2s_tx = l_word[32 - l_cnt])
  /\ []((tx_src = "R" /\ r_cnt \in 1 .. 32) => i2s_tx = r_word[32 - r_cnt])

\* C15 witness: the first shift step after a load of a negative sample has
\* put its sign bit on the line.
C15_Witness == tx_src = "L" /\ l_cnt = 1 /\ i2s_tx = 1 /\ l_word[31] = 1

\* C16: on a sys tick with a word-select edge pulse and sclk_fe both high
\* the holding register of the channel being entered (right on the rising
\* pulse, left on the falling pulse) takes the interface value unshifted and
\* the data line becomes 0; between two falling word-select transitions
\* each register is loaded exactly once.
C16_LoadReplacesShift ==
  /\ [][last' = "sys" =>
          /\ (lrck_re = 1 /\ sclk_fe = 1) =>
               (r_data' = if_r_data /\ i2s_tx' = 0)
          /\ (lrck_fe = 1 /\ sclk_fe = 1) =>
               (l_data' = if_l_data /\ i2s_tx' = 0)]_vars
  /\ [][(last' = "i2s" /\ i2s_lrck = 1 /\ i2s_lrck' = 0 /\ ws_fe >= 1) =>
          (l_loads = 1 /\ r_loads = 1)]_vars
  /\ [](l_loads <= 1 /\ r_loads <= 1)

\* C16 witness: the left register has just been loaded, once in this
\* word-select period, with a non-zero word, and the line is at 0.
C16_Witness ==
  /\ last = "sys" /\ l_cnt = 0 /\ l_loads = 1 /\ ws_fe >= 1
  /\ l_data = l_word /\ l_data # Zero /\ i2s_tx = 0 /\ tx_src = "load"

\* C17: whenever a word-select edge pulse (lrck_re or lrck_fe) is high the
\* bit-clock falling-edge pulse sclk_fe is high in the same sys tick, so the
\* load condition never misses a detected word-select transition.  Both
\* divider bits are sampled in one sys tick; the ticks interleave as the
\* two clock rates allow, from every initial phase.
C17_EdgeImpliesSclkFe ==
  (lrck_re = 1 \/ lrck_fe = 1) => sclk_fe = 1

\* C17 witness: a rising word-select pulse together with sclk_fe, seen
\* after a sys tick, once a full word-select period has gone by.
C17_Witness ==
  /\ last = "sys" /\ lrck_re = 1 /\ sclk_fe = 1 /\ ws_fe >= 1

\* C18: the left and right values the Controller presents to the
\* serializer are equal in every reachable state, and after each sys tick
\* both equal the read port output dat_r of before the tick, whether or not
\* latch_data is high.
C18_IfEqual ==
  /\ [](if_l_data = if_r_data)
  /\ [][last' = "sys" => (if_l_data' = dat_r /\ if_r_data' = dat_r)]_vars

\* C18 witness: after a sys tick taken with latch_data low the interface
\* values changed to a new, non-zero read port output.
C18_Witness ==
  /\ last = "sys" /\ latch_data = 0
  /\ if_l_data = if_r_data /\ if_l_data # Zero

\* C19: frame property of the serializer.  A sys tick with sclk_fe low
\* leaves l_data, r_data and i2s_tx unchanged; a shift or load of one
\* holding register leaves the other one unchanged; r_data does not change
\* while word-select is low and l_data does not change while it is high.
C19_Frame ==
  [][last' = "sys" =>
       /\ sclk_fe = 0 =>
            (l_data' = l_data /\ r_data' = r_data /\ i2s_tx' = i2s_tx)
       /\ (LoadL \/ ShiftL) => r_data' = r_data
       /\ (LoadR \/ ShiftR) => l_data' = l_data
       /\ l_data' # l_data => r_data' = r_data
       /\ i2s_lrck = 0 => r_data' = r_data
       /\ i2s_lrck = 1 => l_data' = l_data]_vars

\* C19 witness: the right register has just been loaded with a non-zero
\* word, in a word-select period in which the left register was loaded and
\* shifted before.
C19_Witness ==
  /\ last = "sys" /\ r_cnt = 0 /\ tx_src = "load" /\ i2s_lrck = 1
  /\ r_data = r_word /\ r_data # Zero /\ l_loads = 1 /\ l_cnt >= 1

\* The counter of a Blinky stays in [0, period].
BlinkyInRange == count \in 0 .. period(blink)

\* C20: from reset the Blinky counter stays in [0, period] and never
\* underflows, and the LED level toggles once every period clock ticks,
\* period = int(f_clk / hz / 2): a tick that changes the LED is the
\* period-th tick since the LED last changed or the domain was reset.
C20_Blinky ==
  /\ []BlinkyInRange
  /\ [][(last' = "blinky" /\ led' # led) =>
          blink_gap + 1 = period(blink)]_vars

====
